---- MODULE Spec2Model ----
(***************************************************************************)
(* Model of quaylib (src/quaylib/main.py): a one-way mirror of the Docker  *)
(* Hub "library" namespace into the Quay "lib" organisation.               *)
(*                                                                         *)
(*   Spec        a whole run of main(), re-run after success               *)
(*   SpecSync    one call sync(repo, auth_file) over a wide set of source  *)
(*               and destination states                                    *)
(*   SpecClient  one call DockerClient.request(args) against a scripted    *)
(*               server                                                    *)
(*                                                                         *)
(* Scheduling: asyncio is single-threaded and cooperative; a coroutine     *)
(* runs from one await of network I/O to the next without interruption.    *)
(* An action is therefore one HTTP exchange together with the code that    *)
(* runs on its response up to the next await.  The three coroutines of     *)
(* asyncio.gather interleave arbitrarily at that granularity.              *)
(*                                                                         *)
(* Environment: the source registry does not change during a behaviour;    *)
(* the destination registry is changed by this program only.  A 429 always *)
(* carries an integer Retry-After header (the Docker Hub contract the      *)
(* client's comment cites).  A successful copy stamps the destination tag  *)
(* with the current time, and source timestamps are never in the future.   *)
(***************************************************************************)
EXTENDS Integers, Sequences, FiniteSets, TLC

\* ---------------------------------------------------------------- bounds
MaxTime == 2        \* timestamps of tags are 1..MaxTime; a behaviour starts at MaxTime + 1
MaxEntries == 2     \* entries of a source tag listing in SpecSync
HubPageSize == 1    \* entries of one source tag page in SpecSync (page_size=100, scaled)
QuayLimit == 1      \* entries of one destination tag page (limit=100, scaled)
Max429 == 1         \* 429 answers served during one behaviour of Spec/SpecSync
MaxRuns == 2        \* runs of main() in one behaviour of Spec
MaxRetries == 3     \* 429 answers in a script of SpecClient

Repos == {"r1", "r2"}
Tags == {"a", "b"}
TagOrder == <<"a", "b">>      \* the order in which Quay lists tag names
Times == 1..MaxTime
Holders == {"main", "ensure", "docker"}   \* coroutines that call the Docker client
Tasks == {"ensure", "docker", "quay"}     \* the awaitables of asyncio.gather

VARIABLES
    now,        \* wall clock, time.time()
    hub,        \* source registry: repository pages, tag pages, metadata, logo probe
    quay,       \* destination registry: per repository existence, description, tags
    n429,       \* 429 answers served so far
    sleep,      \* per holder: <<>> or <<t>>, asleep in the client until t
    run,        \* number of the current run of main()
    mainPc,     \* position of main()/sync()
    authFile,   \* "none", "exists", "deleted": the NamedTemporaryFile
    url,        \* main(): cursor of the repository listing, <<>> is None
    nextUrl,    \* main(): j["next"] of the page being iterated
    results,    \* main(): names of the current page not yet handed to sync
    repo,       \* sync(): <<>> or <<name>>
    ens,        \* ensure_quay_repo coroutine
    dk,         \* get_tags_docker coroutine
    qy,         \* get_tags_quay coroutine
    late,       \* tasks that took a step after a sibling failed
    todo,       \* sync(): items of tags_docker the for loop has not reached
    copying,    \* <<>> or <<tag>>: the skopeo subprocess in flight
    copies,     \* history: <<run, repo, tag>> of every copy invoked
    repoLog,    \* history: repository pages requested in this run
    synced,     \* history: repositories handed to sync in this run
    created,    \* history: credentials files created in this run
    rcs,        \* history: exit code of every copy that has ended, as in copies
    cl,         \* SpecClient: the call of DockerClient.request
    script      \* SpecClient: the answers the server will give

envVars == <<hub, quay, n429, sleep, now>>
mainVars == <<run, mainPc, authFile, url, nextUrl, results, repo>>
taskVars == <<ens, dk, qy, late>>
loopVars == <<todo, copying>>
histVars == <<copies, repoLog, synced, created, rcs>>
clientVars == <<cl, script>>
vars == <<envVars, mainVars, taskVars, loopVars, histVars, clientVars>>

\* ------------------------------------------------------------ HTTP status
IsSuccess(status) == status >= 200 /\ status <= 299
RedirectCodes == {301, 302, 303, 307, 308}
IsRedirect(status) == status \in RedirectCodes
\* raise_for_status(): raises unless the status is a success
Raises(status) == ~IsSuccess(status)
ErrorStatuses == {500}      \* what a registry answers when a request fails

\* ------------------------------------------------- DockerClient.request
TooManyRequests == 429
\* fault variant: every status from 429 up is retried
IsRateLimitedOrWorse(status) == status >= TooManyRequests
IsRateLimited(status) == status = TooManyRequests
\* fault variant: Retry-After read as a number of seconds
RetryDelayRelative(retryAfter, t) == retryAfter
\* int(r.headers["Retry-After"]) - time.time()
RetryDelay(retryAfter, t) == retryAfter - t
\* asyncio.sleep(d) started at t ends at t + d, at once when d <= 0
SleepUntil(t, d) == IF d > 0 THEN t + d ELSE t

\* ------------------------------------------------------ Python dict
\* A dict is a sequence of <<key, value>> with distinct keys, in insertion
\* order; assignment to an existing key keeps its position.
DictKeys(d) == {d[i][1] : i \in 1..Len(d)}
DictHas(d, k) == k \in DictKeys(d)
DictGet(d, k) == (CHOOSE i \in 1..Len(d) : d[i][1] = k)
DictVal(d, k) == d[DictGet(d, k)][2]
DictSet(d, k, v) ==
    IF DictHas(d, k) THEN [d EXCEPT ![DictGet(d, k)] = <<k, v>>]
    ELSE Append(d, <<k, v>>)
RECURSIVE DictUpdate(_, _)
DictUpdate(d, items) ==
    IF items = <<>> THEN d
    ELSE DictUpdate(DictSet(d, Head(items)[1], Head(items)[2]), Tail(items))

\* ------------------------------------------------------ timestamps
\* A datetime is [t, tz]: wall time t at UTC offset tz[1], naive when tz = <<>>.
\* Docker Hub writes ISO-8601 with the offset "Z"; Quay writes RFC 2822 with
\* the zone "-0000", which parsedate_to_datetime reads as a naive datetime.
IsoFormat(i) == [t |-> i, tz |-> <<0>>]
Rfc2822Format(i) == [t |-> i, tz |-> <<>>]
\* datetime.fromisoformat: the offset of the string becomes the tzinfo
FromIsoFormat(w) == [t |-> w.t, tz |-> w.tz]
\* parsedate_to_datetime, then UTC when the result is naive
ParseQuayDate(w) == IF w.tz = <<>> THEN [t |-> w.t, tz |-> <<0>>] ELSE w
Instant(d) == d.t - d.tz[1]
\* d1 >= d2 on aware datetimes
DateGe(d1, d2) == Instant(d1) >= Instant(d2)

\* ------------------------------------------------ repository description
\* Strings are sequences of tokens; + is concatenation.
LogoUrl(r) == <<"logo/", r>>
LogoImg(r) == <<"<img ">> \o LogoUrl(r) \o <<">">>
Notice(r) == <<"--- NOTE ", r, " ---">>
\* logo is <<>> for None
Compose(r, logo, info) ==
    logo \o <<" ">> \o info.description \o Notice(r) \o info.full_description
\* the logo line from the status of the probe
LogoOf(r, status) == IF IsSuccess(status) \/ IsRedirect(status) THEN LogoImg(r) ELSE <<>>

\* ------------------------------------------------- registry answers
Min(a, b) == IF a < b THEN a ELSE b
Max(a, b) == IF a > b THEN a ELSE b
\* Docker Hub: a page of repositories and the cursor of the next page
HubRepoPage(i) ==
    [results |-> hub.repoPages[i],
     next |-> IF i < Len(hub.repoPages) THEN <<i + 1>> ELSE <<>>]
\* Docker Hub: a page of tags of r and the cursor of the next page
HubTagPage(r, i) ==
    [results |-> [k \in 1..Len(hub.tagPages[r][i]) |->
                    [name |-> hub.tagPages[r][i][k][1],
                     last_updated |-> IsoFormat(hub.tagPages[r][i][k][2])]],
     next |-> IF i < Len(hub.tagPages[r]) THEN <<i + 1>> ELSE <<>>]
\* Quay: the active tags of r, QuayLimit to a page
QuayTagNames(r) == SelectSeq(TagOrder, LAMBDA t : t \in DOMAIN quay[r].tags)
QuayTagPage(r, p) ==
    LET names == QuayTagNames(r)
        page == SubSeq(names, (p - 1) * QuayLimit + 1, Min(p * QuayLimit, Len(names)))
    IN [tags |-> [k \in 1..Len(page) |->
                    [name |-> page[k],
                     last_modified |-> Rfc2822Format(quay[r].tags[page[k]])]],
        has_additional |-> Len(names) > p * QuayLimit]
\* Quay: status of a request about repository r
QuayStatus(r) == IF quay[r].exists THEN 200 ELSE 404
\* the Retry-After a 429 carries at time t: the time the limit resets
RetryAfters(t) == {t + 1}

\* ------------------------------------------------ coroutine start states
IdleTask == [pc |-> "idle"]
\* ensure_quay_repo(repo) about to probe the logo; fetched, posts and puts are
\* history: the answer to the fetch, the bodies of the POSTs and PUTs issued
EnsureStart ==
    [pc |-> "logo", logo |-> <<>>, description |-> <<>>, fetched |-> <<>>,
     posts |-> <<>>, puts |-> <<>>]
\* get_tags_docker(repo): tags = {}, url = first page; log is the history of
\* the pages for which docker.get has returned (the retries after a 429
\* happen inside docker.get)
DockerStart == [pc |-> "get", url |-> <<1>>, tags |-> <<>>, log |-> <<>>]
\* get_tags_quay(repo): tags = {}, page = 1; log is the history of the pages
\* requested
QuayStart == [pc |-> "get", page |-> <<1>>, tags |-> <<>>, log |-> <<>>]

\* --------------------------------------------------------- asyncio.gather
AnyFailed == ens.pc = "failed" \/ dk.pc = "failed" \/ qy.pc = "failed"
\* fault variant: gather does not wait for ensure_quay_repo
AllDoneButEnsure == dk.pc = "done" /\ qy.pc = "done" /\ ens.pc # "failed"
AllDone == ens.pc = "done" /\ dk.pc = "done" /\ qy.pc = "done"
\* A task runs while gather is awaited.  Once a sibling has failed, the
\* exception is on its way to main() and the event loop is about to stop: a
\* task still gets at most one more step (the request it had in flight, or
\* the one it issues on a response that had already arrived).
CanStep(task) == mainPc = "gather" /\ (AnyFailed => task \notin late)
Stepped(task) == late' = IF AnyFailed THEN late \cup {task} ELSE late
\* a coroutine that has raised: its frame is gone
Failed == [pc |-> "failed"]
\* the HTTPStatusError of raise_for_status carries the response
FailedWith(status) == [pc |-> "failed", status |-> status]
\* asyncio.run cancels what is pending; the frames of the listings are dropped
Cancel(t) == IF t.pc \in {"done", "failed"} THEN t ELSE [t EXCEPT !.pc = "cancelled"]
Drop(t) == IF t.pc \in {"done", "failed"} THEN t ELSE [pc |-> "cancelled"]

\* ------------------------------------------- the Docker client in a run
Awake(h) == sleep[h] = <<>>
AtDockerRequest(h) ==
    CASE h = "main" -> mainPc = "list"
      [] h = "ensure" -> ens.pc \in {"logo", "info"} /\ CanStep("ensure")
      [] h = "docker" -> dk.pc = "get" /\ CanStep("docker")
TaskOf(h) == IF h = "main" THEN {} ELSE {h}
LateAfter(h) == IF AnyFailed THEN late \cup TaskOf(h) ELSE late

\* DockerClient.request, status 429: sleep, the request is reissued on waking.
\* A run is served at most Max429 answers 429, fewer than would nest a call
\* to the interpreter's recursion limit (see RecursionLimit).
DockerRateLimited(h) ==
    /\ AtDockerRequest(h) /\ Awake(h)
    /\ n429 < Max429
    /\ \E ra \in RetryAfters(now) :
         sleep' = [sleep EXCEPT ![h] = <<SleepUntil(now, RetryDelay(ra, now))>>]
    /\ n429' = n429 + 1
    /\ late' = LateAfter(h)
    /\ UNCHANGED <<hub, quay, now, mainVars, ens, dk, qy, loopVars, histVars, clientVars>>

\* asyncio.sleep returns
DockerWake(h) ==
    /\ AtDockerRequest(h) /\ ~Awake(h)
    /\ now' = Max(now, sleep[h][1])
    /\ sleep' = [sleep EXCEPT ![h] = <<>>]
    /\ late' = LateAfter(h)
    /\ UNCHANGED <<hub, quay, n429, mainVars, ens, dk, qy, loopVars, histVars, clientVars>>

\* ------------------------------------------------------ ensure_quay_repo
\* r = await docker.get(logo_url); no raise_for_status.  The answer of the
\* probe is part of the source state (hub.logo).
EnsureLogo ==
    /\ ens.pc = "logo" /\ CanStep("ensure") /\ Awake("ensure")
    /\ ens' = [ens EXCEPT !.pc = "info", !.logo = LogoOf(repo[1], hub.logo[repo[1]])]
    /\ Stepped("ensure")
    /\ UNCHANGED <<envVars, mainVars, dk, qy, loopVars, histVars, clientVars>>

\* r = await docker.get(repository); raise_for_status; compose description
EnsureInfo ==
    /\ ens.pc = "info" /\ CanStep("ensure") /\ Awake("ensure")
    /\ \E status \in {200} \cup ErrorStatuses :
         ens' = IF Raises(status) THEN [ens EXCEPT !.pc = "failed"]
                ELSE [ens EXCEPT !.pc = "fetch",
                                 !.description = Compose(repo[1], ens.logo, hub.info[repo[1]])]
    /\ Stepped("ensure")
    /\ UNCHANGED <<envVars, mainVars, dk, qy, loopVars, histVars, clientVars>>

\* fault variant: every failure of the fetch is taken for "no such repository"
AfterFetchErrorCreates(status, stored, description) ==
    IF Raises(status) THEN "post"
    ELSE IF stored = description THEN "done" ELSE "put"
\* fault variant: the description is PUT without comparing
AfterFetchAlwaysPut(status, stored, description) ==
    IF Raises(status) THEN (IF status # 404 THEN "failed" ELSE "post") ELSE "put"
\* what ensure_quay_repo does on the answer to quay.get(repository/lib/repo)
AfterFetch(status, stored, description) ==
    IF Raises(status) THEN (IF status # 404 THEN "failed" ELSE "post")
    ELSE IF stored = description THEN "done" ELSE "put"

\* r = await quay.get(repository/lib/repo); raise_for_status; 404 or compare
EnsureFetch ==
    /\ ens.pc = "fetch" /\ CanStep("ensure")
    /\ \E status \in {QuayStatus(repo[1])} \cup ErrorStatuses :
         ens' = [ens EXCEPT !.pc = AfterFetch(status, quay[repo[1]].description,
                                              ens.description),
                            !.fetched = <<status, quay[repo[1]].description>>]
    /\ Stepped("ensure")
    /\ UNCHANGED <<envVars, mainVars, dk, qy, loopVars, histVars, clientVars>>

\* fault variant: the repository is created without its description
CreateBodyBare(r, description) ==
    [namespace |-> "lib", repository |-> r, description |-> <<>>,
     visibility |-> "public", repo_kind |-> "image"]
\* the json of the POST and of the PUT
CreateBody(r, description) ==
    [namespace |-> "lib", repository |-> r, description |-> description,
     visibility |-> "public", repo_kind |-> "image"]
UpdateBody(description) == [description |-> description]
\* fault variant: the return after the POST is missing
AfterPostNoReturn(status) == IF Raises(status) THEN "failed" ELSE "put"
\* after the POST: raise_for_status, return
AfterPost(status) == IF Raises(status) THEN "failed" ELSE "done"
\* after the PUT: raise_for_status, the function ends
AfterPut(status) == IF Raises(status) THEN "failed" ELSE "done"

\* r = await quay.post("repository", json={..., description}); raise_for_status
EnsurePost ==
    /\ ens.pc = "post" /\ CanStep("ensure")
    /\ \E status \in {201} \cup ErrorStatuses :
         LET body == CreateBody(repo[1], ens.description)
         IN /\ ens' = [ens EXCEPT !.pc = AfterPost(status),
                                  !.posts = Append(ens.posts, body)]
            /\ quay' = IF Raises(status) THEN quay
                       ELSE [quay EXCEPT ![body.repository] =
                               [exists |-> TRUE, description |-> body.description,
                                tags |-> << >>]]
    /\ Stepped("ensure")
    /\ UNCHANGED <<hub, n429, sleep, now, mainVars, dk, qy, loopVars, histVars, clientVars>>

\* r = await quay.put(repository/lib/repo, json={description}); raise_for_status
EnsurePut ==
    /\ ens.pc = "put" /\ CanStep("ensure")
    /\ \E status \in {200} \cup ErrorStatuses :
         LET body == UpdateBody(ens.description)
         IN /\ ens' = [ens EXCEPT !.pc = AfterPut(status),
                                  !.puts = Append(ens.puts, body)]
            /\ quay' = IF Raises(status) THEN quay
                       ELSE [quay EXCEPT ![repo[1]].description = body.description]
    /\ Stepped("ensure")
    /\ UNCHANGED <<hub, n429, sleep, now, mainVars, dk, qy, loopVars, histVars, clientVars>>

\* ------------------------------------------------------- get_tags_docker
\* for result in j["results"]: tags[name] = fromisoformat(last_updated)
DockerItems(rs) ==
    [k \in 1..Len(rs) |-> <<rs[k].name, FromIsoFormat(rs[k].last_updated)>>]
\* fault variant: the cursor is dropped after the first page
NextCursorNone(j) == <<>>
\* the cursor after a page: url = j["next"]
NextCursor(j) == j.next

GetTagsDocker ==
    /\ dk.pc = "get" /\ CanStep("docker") /\ Awake("docker")
    /\ \E status \in {200} \cup ErrorStatuses :
         LET j == HubTagPage(repo[1], dk.url[1])
             cursor == NextCursor(j)
         IN dk' = IF Raises(status)
                  THEN Failed
                  ELSE [dk EXCEPT !.pc = IF cursor = <<>> THEN "done" ELSE "get",
                                  !.url = cursor,
                                  !.tags = DictUpdate(dk.tags, DockerItems(j.results)),
                                  !.log = Append(dk.log, dk.url[1])]
    /\ Stepped("docker")
    /\ UNCHANGED <<envVars, mainVars, ens, qy, loopVars, histVars, clientVars>>

\* --------------------------------------------------------- get_tags_quay
\* for tag in j["tags"]: tags[name] = parsed last_modified, UTC when naive
QuayItems(tags) ==
    [k \in 1..Len(tags) |-> <<tags[k].name, ParseQuayDate(tags[k].last_modified)>>]
\* fault variant: the page counter is advanced twice
NextPageSkips(page, j) == IF j.has_additional THEN <<page + 2>> ELSE <<>>
\* fault variant: the listing stops after its first page
NextPageNever(page, j) == <<>>
\* page += 1 if has_additional else None
NextPage(page, j) == IF j.has_additional THEN <<page + 1>> ELSE <<>>

GetTagsQuay ==
    /\ qy.pc = "get" /\ CanStep("quay")
    /\ \E status \in {QuayStatus(repo[1])} \cup ErrorStatuses :
         LET j == QuayTagPage(repo[1], qy.page[1])
             page == NextPage(qy.page[1], j)
         IN qy' = IF Raises(status)
                  THEN FailedWith(status)
                  ELSE [qy EXCEPT !.pc = IF page = <<>> THEN "done" ELSE "get",
                                  !.page = page,
                                  !.tags = DictUpdate(qy.tags, QuayItems(j.tags)),
                                  !.log = Append(qy.log, qy.page[1])]
    /\ Stepped("quay")
    /\ UNCHANGED <<envVars, mainVars, ens, dk, loopVars, histVars, clientVars>>

\* ------------------------------------------------------------------ sync
\* fault variant: the file is kept on close (delete=False)
CloseAuthFileKeeps == "exists"
\* the exit of the with block: the NamedTemporaryFile is closed and deleted
CloseAuthFile == "deleted"

\* await asyncio.gather(...) returns the three results
GatherDone ==
    /\ mainPc = "gather" /\ AllDone
    /\ mainPc' = "loop"
    /\ todo' = dk.tags
    /\ UNCHANGED <<envVars, run, authFile, url, nextUrl, results, repo, taskVars,
                   copying, histVars, clientVars>>

\* await asyncio.gather(...) raises the first exception; it is handled nowhere,
\* main() ends and asyncio.run cancels the tasks still pending
GatherFail ==
    /\ mainPc = "gather" /\ AnyFailed
    /\ mainPc' = "failed"
    /\ authFile' = CloseAuthFile
    /\ ens' = Cancel(ens) /\ dk' = Drop(dk) /\ qy' = Drop(qy)
    /\ sleep' = [h \in Holders |-> <<>>]
    /\ late' = {}
    /\ UNCHANGED <<hub, quay, n429, now, run, url, nextUrl, results, repo,
                   loopVars, histVars, clientVars>>

\* fault variant: equal timestamps count as stale
InSyncStrict(tag, docker_modified, tags_quay) ==
    /\ DictHas(tags_quay, tag)
    /\ Instant(DictVal(tags_quay, tag)) > Instant(docker_modified)
\* if tag in tags_quay and tags_quay[tag] >= docker_modified: continue
InSync(tag, docker_modified, tags_quay) ==
    DictHas(tags_quay, tag) /\ DateGe(DictVal(tags_quay, tag), docker_modified)
\* the items left once the loop has passed the leading in-sync ones
RECURSIVE SkipInSync(_, _)
SkipInSync(items, tags_quay) ==
    IF items = <<>> THEN <<>>
    ELSE IF InSync(Head(items)[1], Head(items)[2], tags_quay)
         THEN SkipInSync(Tail(items), tags_quay)
         ELSE items

\* fault variant: the subprocess is started and not waited for
NotBlocked == "loop"
\* subprocess.run does not return before skopeo has exited: sync() stays at
\* the call, and with it the only thread of the event loop
Blocked == "copy"
\* fault variant: the copy replaces the tags of the destination repository
CopiedAlone(tags, tag, t) == (tag :> t)
\* skopeo sync docker.io/library/repo:tag quay.io/lib writes that one tag of
\* the destination repository, stamped with the time of the copy
Copied(tags, tag, t) == (tag :> t) @@ tags
\* fault variant: the exit code is not checked
AfterCopyUnchecked(rc) == "loop"
\* check=True: a non-zero exit raises CalledProcessError, handled nowhere
AfterCopy(rc) == IF rc = 0 THEN "loop" ELSE "failed"

\* the for loop reaches a stale tag: subprocess.run(skopeo sync ... repo:tag)
CopyStart ==
    /\ mainPc = "loop"
    /\ LET rest == SkipInSync(todo, qy.tags)
       IN /\ rest # <<>>
          /\ copying' = <<Head(rest)[1]>>
          /\ todo' = Tail(rest)
          /\ copies' = Append(copies, <<run, repo[1], Head(rest)[1]>>)
    /\ mainPc' = Blocked
    /\ UNCHANGED <<envVars, run, authFile, url, nextUrl, results, repo, taskVars,
                   repoLog, synced, created, rcs, clientVars>>

\* skopeo exits: 0, the tag now exists at the destination, stamped with the
\* time of the copy; non-zero, check=True raises CalledProcessError
CopyEnd ==
    /\ mainPc = Blocked /\ copying # <<>>
    /\ \E rc \in {0, 1} :
         /\ quay' = IF rc = 0
                    THEN [quay EXCEPT ![repo[1]].tags = Copied(@, copying[1], now)]
                    ELSE quay
         /\ mainPc' = AfterCopy(rc)
         /\ authFile' = IF AfterCopy(rc) = "failed" THEN CloseAuthFile ELSE authFile
         /\ rcs' = Append(rcs, rc)
    /\ copying' = <<>>
    /\ UNCHANGED <<hub, n429, sleep, now, run, url, nextUrl, results, repo, taskVars,
                   todo, copies, repoLog, synced, created, clientVars>>

\* the for loop ends: sync returns
SyncReturn ==
    /\ mainPc = "loop"
    /\ SkipInSync(todo, qy.tags) = <<>>
    /\ mainPc' = "ret"
    /\ todo' = <<>>
    /\ UNCHANGED <<envVars, run, authFile, url, nextUrl, results, repo, taskVars,
                   copying, histVars, clientVars>>

\* ------------------------------------------------------------------ main
\* with NamedTemporaryFile(...) as auth_file: json.dump; flush; url = first page
MainStart ==
    /\ mainPc = "init"
    /\ authFile' = "exists"
    /\ url' = <<1>>
    /\ mainPc' = "list"
    /\ created' = created + 1
    /\ UNCHANGED <<envVars, run, nextUrl, results, repo, taskVars, loopVars,
                   copies, repoLog, synced, rcs, clientVars>>

\* r = await docker.get(url); raise_for_status; j = r.json()
MainList ==
    /\ mainPc = "list" /\ Awake("main")
    /\ \E status \in {200} \cup ErrorStatuses :
         IF Raises(status)
         THEN /\ mainPc' = "failed"
              /\ authFile' = CloseAuthFile
              /\ UNCHANGED <<results, nextUrl>>
         ELSE /\ mainPc' = "iter"
              /\ results' = HubRepoPage(url[1]).results
              /\ nextUrl' = NextCursor(HubRepoPage(url[1]))
              /\ UNCHANGED authFile
    /\ repoLog' = Append(repoLog, url[1])
    /\ UNCHANGED <<envVars, run, url, repo, taskVars, loopVars, copies, synced,
                   created, rcs, clientVars>>

\* fault variant: the last name of a page is left out
PageDoneEarly(rs) == Len(rs) <= 1
\* the for loop over j["results"] has run out of names
PageDone(rs) == rs = <<>>
\* fault variant: the page is read from its end
NextRepoLast(rs) == rs[Len(rs)]
\* the for loop over j["results"] takes the names in the order of the page
NextRepo(rs) == Head(rs)

\* for result in j["results"]: await sync(result["name"], auth_file.name)
\* sync starts the three coroutines under asyncio.gather
MainSync ==
    /\ mainPc \in {"iter", "ret"}
    /\ ~PageDone(results)
    /\ repo' = <<NextRepo(results)>>
    /\ results' = Tail(results)
    /\ synced' = Append(synced, NextRepo(results))
    /\ ens' = EnsureStart /\ dk' = DockerStart /\ qy' = QuayStart
    /\ late' = {}
    /\ mainPc' = "gather"
    /\ UNCHANGED <<envVars, run, authFile, url, nextUrl, loopVars, copies, repoLog,
                   created, rcs, clientVars>>

\* url = j["next"]; while url: ... ; the with block ends when url is None
MainNextPage ==
    /\ mainPc \in {"iter", "ret"}
    /\ PageDone(results)
    /\ url' = nextUrl
    /\ IF nextUrl = <<>>
       THEN mainPc' = "done" /\ authFile' = CloseAuthFile
       ELSE mainPc' = "list" /\ UNCHANGED authFile
    /\ UNCHANGED <<envVars, run, nextUrl, results, repo, taskVars, loopVars,
                   histVars, clientVars>>

\* cli() is started again after a run that ended normally
Rerun ==
    /\ mainPc = "done"
    /\ run < MaxRuns
    /\ run' = run + 1
    /\ mainPc' = "init"
    /\ authFile' = "none"
    /\ url' = <<>> /\ nextUrl' = <<>> /\ results' = <<>> /\ repo' = <<>>
    /\ ens' = IdleTask /\ dk' = IdleTask /\ qy' = IdleTask /\ late' = {}
    /\ repoLog' = <<>> /\ synced' = <<>> /\ created' = 0
    /\ UNCHANGED <<envVars, loopVars, copies, rcs, clientVars>>

\* --------------------------------- DockerClient.request against a script
\* A response: status, the Retry-After header, the payload.
ClientOff == [st |-> "off"]
\* request(*args, **kwargs) is entered
ClientCall(args, plan, t) ==
    [st |-> "call", args |-> args, sent |-> <<>>, waits |-> 0, slept |-> 0,
     wake |-> <<>>, ret |-> <<>>, plan |-> plan, t0 |-> t, depth |-> 1]
\* fault variant: the keyword arguments are lost on the retry
ReissueArgsOnly(args) == <<args[1], args[2], "">>
\* return await self.request(*args, **kwargs): args is <<method, url, kwargs>>
Reissue(args) == <<args[1], args[2], args[3]>>

\* r = await super().request(*args, **kwargs); return r unless 429, else sleep
ClientRequest ==
    /\ cl.st = "call" /\ script # <<>>
    /\ LET r == Head(script)
       IN cl' = IF ~IsRateLimited(r.status)
                THEN [cl EXCEPT !.st = "returned", !.ret = <<r>>,
                                !.sent = Append(cl.sent, cl.args)]
                ELSE [cl EXCEPT !.st = "sleeping",
                                !.wake = <<SleepUntil(now, RetryDelay(r.retryAfter, now))>>,
                                !.waits = cl.waits + 1,
                                !.sent = Append(cl.sent, cl.args)]
    /\ script' = Tail(script)
    /\ UNCHANGED <<envVars, mainVars, taskVars, loopVars, histVars>>

\* The retry is a call of request from within request: every 429 nests one
\* more coroutine frame under the caller, and the interpreter raises
\* RecursionError when the nesting passes its limit.
\* sys.getrecursionlimit() less the frames around the call, scaled from 1000
RecursionLimit == 3
TooDeep(depth) == depth > RecursionLimit

\* asyncio.sleep returns; the request is reissued with the same arguments
ClientWake ==
    /\ cl.st = "sleeping"
    /\ now' = cl.wake[1]
    /\ cl' = [cl EXCEPT !.st = IF TooDeep(cl.depth + 1) THEN "raised" ELSE "call",
                        !.wake = <<>>, !.args = Reissue(cl.args),
                        !.slept = cl.slept + (cl.wake[1] - now),
                        !.depth = cl.depth + 1]
    /\ UNCHANGED <<hub, quay, n429, sleep, mainVars, taskVars, loopVars, histVars, script>>

\* ------------------------------------------------------- initial states
Epoch == MaxTime + 1    \* time.time() when a behaviour starts
TagEntries == Tags \X Times
\* the listings of at most MaxEntries entries, names may repeat
TagLists == UNION {[1..n -> TagEntries] : n \in 0..MaxEntries}
\* a listing cut into pages of n entries; an empty listing is one empty page
RECURSIVE Chunk(_, _)
Chunk(list, n) ==
    IF Len(list) <= n THEN <<list>>
    ELSE <<SubSeq(list, 1, n)>> \o Chunk(SubSeq(list, n + 1, Len(list)), n)
TagListings == {Chunk(l, HubPageSize) : l \in TagLists}
DestTagMaps == UNION {[S -> Times] : S \in SUBSET Tags}
Info == [description |-> <<"d">>, full_description |-> <<"f">>]
AbsentRepo == [exists |-> FALSE, description |-> <<>>, tags |-> << >>]
\* the states of destination repository r: absent, or present with the
\* description a sync of source h would compose or with another one
DestRepos(r, h) ==
    {AbsentRepo} \cup
    {[exists |-> TRUE, description |-> d, tags |-> t] :
        d \in {Compose(r, LogoOf(r, h.logo[r]), h.info[r]), <<"old">>},
        t \in DestTagMaps}

\* the program before main() is entered
ProgramIdle ==
    /\ run = 1 /\ mainPc = "init" /\ authFile = "none"
    /\ url = <<>> /\ nextUrl = <<>> /\ results = <<>> /\ repo = <<>>
    /\ ens = IdleTask /\ dk = IdleTask /\ qy = IdleTask /\ late = {}
    /\ todo = <<>> /\ copying = <<>>
    /\ copies = <<>> /\ repoLog = <<>> /\ synced = <<>>
    /\ created = 0 /\ rcs = <<>>

\* Spec: two repositories; the registries of a run
RepoListings == {<<<<"r1", "r2">>>>, <<<<"r2">>, <<"r1">>>>, <<<<"r1">>, <<>>>>}
RunListings(r) ==
    IF r = "r1"
    THEN {<<<<<<"a", 2>>>>>>, <<<<<<"a", 1>>>>, <<<<"a", 2>>>>>>,
          <<<<<<"b", 1>>>>, <<<<"a", 1>>>>>>}
    ELSE {<<<<<<"b", 1>>>>>>}
\* destination states of a run: absent, or present with a description and tags
RunDests(r, h) ==
    LET right == Compose(r, LogoOf(r, h.logo[r]), h.info[r])
        there(d, t) == [exists |-> TRUE, description |-> d, tags |-> t]
    IN IF r = "r1"
       THEN {AbsentRepo, there(<<"old">>, << >>), there(<<"old">>, "a" :> 1),
             there(right, "a" :> 1), there(right, ("a" :> 2) @@ ("b" :> 1))}
       ELSE {AbsentRepo, there(right, "b" :> 1)}

Init ==
    /\ now = Epoch /\ n429 = 0 /\ sleep = [h \in Holders |-> <<>>]
    /\ \E pages \in RepoListings, l1 \in RunListings("r1"), l2 \in RunListings("r2"),
          s1 \in {302, 404} :
         hub = [repoPages |-> pages,
                tagPages |-> [r \in Repos |-> IF r = "r1" THEN l1 ELSE l2],
                info |-> [r \in Repos |-> Info],
                logo |-> [r \in Repos |-> IF r = "r1" THEN s1 ELSE 404]]
    /\ \E d1 \in RunDests("r1", hub), d2 \in RunDests("r2", hub) :
         quay = [r \in Repos |-> IF r = "r1" THEN d1 ELSE d2]
    /\ ProgramIdle
    /\ cl = ClientOff /\ script = <<>>

Next ==
    \/ \E h \in Holders : DockerRateLimited(h)
    \/ \E h \in Holders : DockerWake(h)
    \/ EnsureLogo \/ EnsureInfo \/ EnsureFetch \/ EnsurePost \/ EnsurePut
    \/ GetTagsDocker \/ GetTagsQuay
    \/ GatherDone \/ GatherFail
    \/ CopyStart \/ CopyEnd \/ SyncReturn
    \/ MainStart \/ MainList \/ MainSync \/ MainNextPage \/ Rerun

Spec == Init /\ [][Next]_vars

\* SpecSync: main() has just called sync("r1", auth_file) for the last
\* repository of the listing; the source registry does not rate-limit
InitSync ==
    /\ now = Epoch /\ n429 = 0 /\ sleep = [h \in Holders |-> <<>>]
    /\ \E l \in TagListings, s \in {200, 302, 404} :
         hub = [repoPages |-> <<<<"r1">>>>,
                tagPages |-> [r \in Repos |-> IF r = "r1" THEN l ELSE <<<<>>>>],
                info |-> [r \in Repos |-> Info],
                logo |-> [r \in Repos |-> IF r = "r1" THEN s ELSE 404]]
    /\ \E d \in DestRepos("r1", hub) :
         \* every destination state under a logo answered 200; under the other
         \* answers of the logo probe, those without tags
         /\ hub.logo["r1"] # 200 => d.tags = << >>
         /\ quay = [r \in Repos |-> IF r = "r1" THEN d ELSE AbsentRepo]
    /\ run = 1 /\ mainPc = "gather" /\ authFile = "exists"
    /\ url = <<1>> /\ nextUrl = <<>> /\ results = <<>> /\ repo = <<"r1">>
    /\ ens = EnsureStart /\ dk = DockerStart /\ qy = QuayStart /\ late = {}
    /\ todo = <<>> /\ copying = <<>>
    /\ copies = <<>> /\ repoLog = <<1>> /\ synced = <<"r1">>
    /\ created = 1 /\ rcs = <<>>
    /\ cl = ClientOff /\ script = <<>>

NextSync ==
    \/ EnsureLogo \/ EnsureInfo \/ EnsureFetch \/ EnsurePost \/ EnsurePut
    \/ GetTagsDocker \/ GetTagsQuay
    \/ GatherDone \/ GatherFail
    \/ CopyStart \/ CopyEnd \/ SyncReturn

SpecSync == InitSync /\ [][NextSync]_vars

\* SpecClient: one call of the client; the server answers 429 a number of
\* times, then something else
ClientArgs == {<<"GET", "u1", "params">>, <<"GET", "u2", "params">>}
FinalStatuses == {200, 404, 500}
RetryAfterHeaders == {2} \cup {Epoch + d : d \in 0..2}
Limited == [status : {TooManyRequests}, retryAfter : RetryAfterHeaders, body : {"slow down"}]
Final == [status : FinalStatuses, retryAfter : {Epoch + 1}, body : {"payload"}]
Scripts == UNION {{s \o <<f>> : s \in [1..k -> Limited], f \in Final} : k \in 0..MaxRetries}

InitClient ==
    /\ now = Epoch /\ n429 = 0 /\ sleep = [h \in Holders |-> <<>>]
    /\ hub = [repoPages |-> <<<<>>>>,
              tagPages |-> [r \in Repos |-> <<<<>>>>],
              info |-> [r \in Repos |-> Info],
              logo |-> [r \in Repos |-> 404]]
    /\ quay = [r \in Repos |-> AbsentRepo]
    /\ ProgramIdle
    /\ script \in Scripts
    /\ \E a \in ClientArgs : cl = ClientCall(a, script, now)

NextClient == ClientRequest \/ ClientWake

SpecClient == InitClient /\ [][NextClient]_vars

\* ===================================================================
\* Properties
\* ===================================================================
\* how often x occurs in the sequence q
Count(q, x) == Cardinality({i \in 1..Len(q) : q[i] = x})
\* the tag map of a dict: tag -> instant
MapOf(d) == [k \in DictKeys(d) |-> Instant(DictVal(d, k))]
\* the staleness rule: absent at the destination, or strictly older there
IsStale(t, S, D) == t \in DOMAIN S /\ (t \notin DOMAIN D \/ D[t] < S[t])
\* the tags copied for repository r in run n, in order
CopiedIn(n, r) == SelectSeq(copies, LAMBDA c : c[1] = n /\ c[2] = r)
\* sync has returned normally for the current repository
SyncCompleted == mainPc = "ret"

\* C1: when the sync of a repository completes, with S and D the tag maps
\* it read, the copy was invoked exactly once for every tag of S that is
\* absent from D or strictly older in D, and for no other tag; a tag with
\* equal timestamps is not copied.
C1_CopiesExactlyStale ==
    SyncCompleted =>
        \A t \in Tags :
            Count(copies, <<run, repo[1], t>>) =
                IF IsStale(t, MapOf(dk.tags), MapOf(qy.tags)) THEN 1 ELSE 0

\* C1 witness: a completed sync that copied one tag and skipped another whose
\* timestamps are equal on both sides.
C1_Witness ==
    /\ SyncCompleted
    /\ \E t, u \in Tags :
         /\ t # u
         /\ Count(copies, <<run, repo[1], t>>) = 1
         /\ u \in DOMAIN MapOf(dk.tags) /\ u \in DOMAIN MapOf(qy.tags)
         /\ MapOf(dk.tags)[u] = MapOf(qy.tags)[u]
         /\ Count(copies, <<run, repo[1], u>>) = 0

\* C2: a run that follows a run which completed, with the source unchanged,
\* invokes no copy.
C2_SecondRunCopiesNothing ==
    \A i \in 1..Len(copies) : copies[i][1] = 1

\* C2 witness: the second run has completed over a listing of two
\* repositories, and the first run had copied something.
C2_Witness ==
    /\ run = 2 /\ mainPc = "done" /\ Len(synced) = 2
    /\ copies # <<>>

\* C3: a copy is invoked for a repository only when all three gathered
\* operations of its sync have completed successfully; when one of them has
\* failed, no copy is invoked for that repository.
C3_CopyOnlyAfterGather ==
    (repo # <<>> /\ CopiedIn(run, repo[1]) # <<>>) =>
        (ens.pc = "done" /\ dk.pc = "done" /\ qy.pc = "done")

\* C3 witness: a copy is in flight.
C3_Witness == mainPc = "copy" /\ copying # <<>> /\ CopiedIn(run, repo[1]) # <<>>

\* the description a sync of repository r composes from the source metadata
Composed(r) == Compose(r, LogoOf(r, hub.logo[r]), hub.info[r])
\* the call of ensure_quay_repo has ended: returned, raised or been cancelled
EnsureEnded == ens.pc \in {"done", "failed", "cancelled"}
\* the three outcomes, by the requests the call issued and how it ended
IsNoOp == ens.pc = "done" /\ ens.posts = <<>> /\ ens.puts = <<>>
IsCreate == Len(ens.posts) = 1 /\ ens.puts = <<>>
IsUpdate == Len(ens.puts) = 1 /\ ens.posts = <<>>

\* C4 as claimed: every call of ensure-repository-metadata ends as exactly
\* one of no-op, create, update.  It fails for a call that raises before it
\* issues a POST or PUT (the metadata request or the fetch failed).
C4_EveryCallHasOutcome ==
    EnsureEnded => (IsNoOp \/ IsCreate \/ IsUpdate)

\* C4 amended: a call that returns normally is exactly one of no-op, create,
\* update; no call, however it ends, issues both a POST and a PUT or issues
\* either more than once.
C4_ReturnedCallHasOneOutcome ==
    /\ ens.pc # "idle" => Len(ens.posts) + Len(ens.puts) <= 1
    /\ ens.pc = "done" =>
         /\ IsNoOp \/ IsCreate \/ IsUpdate
         /\ ~(IsNoOp /\ IsCreate) /\ ~(IsNoOp /\ IsUpdate) /\ ~(IsCreate /\ IsUpdate)
         /\ IsNoOp => ens.fetched[2] = quay[repo[1]].description

\* C4 witness: a call that returned after creating the repository.
C4_Witness == ens.pc = "done" /\ IsCreate /\ ens.fetched[1] = 404

\* C5: the destination fetch decides the outcome of a call that is not
\* cancelled: 404, exactly one POST carrying the composed description and no
\* PUT; 200 with the composed description stored, no POST and no PUT; 200
\* with another description stored, exactly one PUT of the composed
\* description and no POST.
C5_FetchDecidesOutcome ==
    (ens.pc \in {"done", "failed"} /\ ens.fetched # <<>>) =>
        LET status == ens.fetched[1]
            stored == ens.fetched[2]
        IN /\ status = 404 =>
                /\ Len(ens.posts) = 1 /\ ens.puts = <<>>
                /\ ens.posts[1].description = Composed(repo[1])
                /\ ens.posts[1].repository = repo[1]
           /\ (status = 200 /\ stored = Composed(repo[1])) =>
                ens.posts = <<>> /\ ens.puts = <<>>
           /\ (status = 200 /\ stored # Composed(repo[1])) =>
                /\ Len(ens.puts) = 1 /\ ens.posts = <<>>
                /\ ens.puts[1].description = Composed(repo[1])

\* C5 witness: a 404 on the fetch, then one POST of the composed description.
C5_Witness ==
    /\ ens.pc = "done" /\ ens.fetched # <<>> /\ ens.fetched[1] = 404
    /\ Len(ens.posts) = 1 /\ ens.posts[1].description = Composed(repo[1])

\* C6: after a successful sync of a repository, the destination repository
\* exists and stores the description composed from the source metadata.
C6_DescriptionAfterSync ==
    SyncCompleted =>
        /\ quay[repo[1]].exists
        /\ quay[repo[1]].description = Composed(repo[1])

\* C6 witness: a sync completed for a repository that was absent before.
C6_Witness ==
    /\ SyncCompleted /\ ens.fetched[1] = 404
    /\ quay[repo[1]].exists /\ quay[repo[1]].description = Composed(repo[1])

\* C6 witnesses of the other two starting states: another description, the
\* same description.
C6_WitnessUpdated == SyncCompleted /\ ens.fetched = <<200, <<"old">>>>
C6_WitnessEqual == SyncCompleted /\ ens.fetched = <<200, Composed(repo[1])>>

\* the number of 429 answers the scripted server gives before its last answer
Limits == Len(cl.plan) - 1
ClientReturned == cl.st = "returned"

\* C7: the client never hands a 429 to its caller; after k 429 answers and
\* one other answer it has slept k times, sent k + 1 requests with the
\* arguments of the call, and returns that last answer.
C7_RetriesUntilNot429 ==
    /\ (cl.st # "off" /\ cl.ret # <<>>) => cl.ret[1].status # 429
    /\ cl.st = "sleeping" => cl.waits = Len(cl.sent)
    /\ ClientReturned =>
         /\ cl.waits = Limits
         /\ Len(cl.sent) = Limits + 1
         /\ \A i \in 1..Len(cl.sent) : cl.sent[i] = cl.sent[1]
         /\ cl.ret = <<cl.plan[Len(cl.plan)]>>

\* C7 witness: two 429 answers, two sleeps, three requests, then the answer.
C7_Witness ==
    /\ ClientReturned /\ Limits = 2 /\ cl.waits = 2 /\ Len(cl.sent) = 3
    /\ cl.ret[1].status = 200

\* the script "one 429 with this Retry-After, then 200"
OneLimitThenOk(ra) ==
    /\ cl.st # "off" /\ Len(cl.plan) = 2
    /\ cl.plan[1].retryAfter = ra /\ cl.plan[2].status = 200

\* C8 as claimed: after one 429 with Retry-After=2 and then 200, the client
\* has slept 2 seconds and returns the 200.  The header is read as a time of
\* day, not as a number of seconds, so the sleep is 2 - time.time().
C8_SleepsTwoSeconds ==
    (OneLimitThenOk(2) /\ ClientReturned) =>
        (cl.slept = 2 /\ cl.ret = <<cl.plan[2]>>)

\* C8 amended: after one 429 with Retry-After=T and then 200, the client has
\* slept from the receipt of the 429 until time T (not at all when T is
\* past, 2 seconds when T is 2 seconds ahead) and returns the 200.
C8_SleepsUntilRetryAfter ==
    \A ra \in RetryAfterHeaders :
        (OneLimitThenOk(ra) /\ ClientReturned) =>
            /\ cl.slept = (IF ra > cl.t0 THEN ra - cl.t0 ELSE 0)
            /\ now = cl.t0 + cl.slept
            /\ cl.ret = <<cl.plan[2]>>
            /\ cl.ret[1].status = 200

\* C8 witness: Retry-After two seconds ahead, two seconds slept, 200 returned.
C8_Witness ==
    /\ OneLimitThenOk(cl.t0 + 2) /\ ClientReturned
    /\ cl.slept = 2 /\ cl.ret[1].status = 200

\* C9: when the first answer is not a 429, whatever its status, the client
\* sends one request, does not sleep, and returns that answer unchanged.
C9_OtherStatusReturnedAtOnce ==
    (cl.st # "off" /\ Limits = 0) =>
        /\ cl.st # "sleeping" /\ cl.waits = 0 /\ cl.slept = 0 /\ now = cl.t0
        /\ Len(cl.sent) <= 1
        /\ Len(cl.sent) = 1 => (ClientReturned /\ cl.ret = <<cl.plan[1]>>
                                /\ cl.sent[1] = cl.args)

\* C9 witness: an error status other than 429 is returned after one request.
C9_Witness ==
    /\ ClientReturned /\ Limits = 0 /\ Len(cl.sent) = 1
    /\ cl.ret[1].status = 500

\* the concatenation of the pages of a listing
RECURSIVE Flatten(_)
Flatten(pages) == IF pages = <<>> THEN <<>> ELSE Head(pages) \o Flatten(Tail(pages))
\* the tag map of a source listing: the last entry of a name wins
ListingMap(pages) ==
    LET all == Flatten(pages)
        last(n) == CHOOSE i \in 1..Len(all) :
                     /\ all[i][1] = n
                     /\ \A k \in (i + 1)..Len(all) : all[k][1] # n
    IN [n \in {all[i][1] : i \in 1..Len(all)} |-> all[last(n)][2]]
\* 1, 2, ..., n
UpTo(n) == [i \in 1..n |-> i]

\* C10: a source listing of N pages is requested page by page, each page
\* once, in order, and no further; the tag map collected is the union of the
\* pages with a later duplicate overwriting an earlier one; the repositories
\* handed to sync are those of all pages of the repository listing.
C10_SourcePagination ==
    /\ dk.pc = "done" =>
         /\ dk.log = UpTo(Len(hub.tagPages[repo[1]]))
         /\ MapOf(dk.tags) = ListingMap(hub.tagPages[repo[1]])
    /\ dk.pc = "get" => dk.log = UpTo(dk.url[1] - 1)
    /\ mainPc = "done" =>
         /\ repoLog = UpTo(Len(hub.repoPages))
         /\ {synced[i] : i \in 1..Len(synced)} = {r \in Repos : \E i \in 1..Len(hub.repoPages) : \E k \in 1..Len(hub.repoPages[i]) : hub.repoPages[i][k] = r}
         /\ synced = Flatten(hub.repoPages)

\* C10 witness: a run has completed over two repository pages; the tag
\* listing of the last repository had two pages naming the same tag.
C10_Witness ==
    /\ mainPc = "done" /\ repoLog = <<1, 2>> /\ Len(synced) = 2
    /\ dk.pc = "done" /\ dk.log = <<1, 2>>
    /\ hub.tagPages[repo[1]][1][1][1] = hub.tagPages[repo[1]][2][1][1]
    /\ hub.tagPages[repo[1]][1][1][2] # hub.tagPages[repo[1]][2][1][2]
    /\ Len(dk.tags) = 1

\* a copy was invoked in the current run
CopiedInRun == \E i \in 1..Len(copies) : copies[i][1] = run
\* the run has ended, normally or with an error
RunEnded == mainPc \in {"done", "failed"}

\* C11: in a run the credentials file is created once and before any copy is
\* invoked; it exists while a copy is in flight; once the run has ended,
\* normally, on an HTTP error or on a non-zero exit of the copy tool, the
\* file no longer exists.
C11_CredentialsFile ==
    /\ created <= 1
    /\ CopiedInRun => created = 1
    /\ copying # <<>> => (authFile = "exists" /\ created = 1)
    /\ (mainPc \notin {"init", "done", "failed"}) => authFile = "exists"
    /\ RunEnded => (authFile = "deleted" /\ created = 1)

\* C11 witness: the run has ended on a non-zero exit of the copy tool, the
\* file had been created once and is gone.
C11_Witness ==
    /\ mainPc = "failed" /\ rcs # <<>> /\ rcs[Len(rcs)] # 0
    /\ created = 1 /\ authFile = "deleted"

\* C11, the other exits: normal completion after a copy; an HTTP error.
C11_WitnessDone == mainPc = "done" /\ CopiedInRun /\ authFile = "deleted"
C11_WitnessHttp == mainPc = "failed" /\ qy.pc = "failed" /\ authFile = "deleted"

\* a fatal condition has occurred in the current run: a checked request was
\* answered with an error status, or the copy tool exited non-zero
FatalCondition ==
    \/ mainPc = "failed"
    \/ ens.pc = "failed" \/ dk.pc = "failed" \/ qy.pc = "failed"
    \/ \E i \in 1..Len(rcs) : rcs[i] # 0

\* C12: once a fatal condition has occurred, main() is at the failing await
\* or has failed; from then on no copy is invoked, no repository is handed
\* to sync, no page of the repository listing is requested, no new run
\* starts, and main() can only move to the failed state, which it is able
\* to do.
C12_FailFast ==
    /\ [](FatalCondition => mainPc \in {"gather", "failed"})
    /\ []((FatalCondition /\ mainPc # "failed") => ENABLED GatherFail)
    /\ [][FatalCondition =>
            /\ copies' = copies /\ synced' = synced /\ repoLog' = repoLog
            /\ run' = run /\ copying' = copying
            /\ mainPc' \in {mainPc, "failed"}]_vars

\* C12 witness: the run failed on a copy while a stale tag of the repository
\* and a later repository of the page were still to come.
C12_Witness ==
    /\ mainPc = "failed" /\ rcs # <<>> /\ rcs[Len(rcs)] # 0
    /\ SkipInSync(todo, qy.tags) # <<>>
    /\ results # <<>>

\* the tag names the source lists for repository r
SourceTags(r) ==
    LET all == Flatten(hub.tagPages[r]) IN {all[i][1] : i \in 1..Len(all)}

\* C13: no step deletes or alters a tag of the destination that the source
\* does not have: such a tag is still there after the step, with the same
\* timestamp.
C13_Additive ==
    [][\A r \in Repos : \A t \in DOMAIN quay[r].tags :
          t \notin SourceTags(r) =>
              (t \in DOMAIN quay'[r].tags /\ quay'[r].tags[t] = quay[r].tags[t])]_vars

\* C13 witness: a sync that copied a tag has completed, and the destination
\* holds a tag the source does not have.
C13_Witness ==
    /\ SyncCompleted /\ CopiedIn(run, repo[1]) # <<>>
    /\ \E t \in DOMAIN quay[repo[1]].tags : t \notin SourceTags(repo[1])

\* the names of the first n pages of the repository listing, in order
ListedUpTo(n) == Flatten(SubSeq(hub.repoPages, 1, n))
\* q is an initial part of the sequence w
IsPrefix(q, w) == Len(q) <= Len(w) /\ q = SubSeq(w, 1, Len(q))

\* C14 as claimed: a sync starts only when every page of the repository
\* listing has been fetched.  It fails: the repositories of a page are
\* synchronised before the next page is requested.
C14_AllPagesBeforeFirstSync ==
    synced # <<>> => Len(repoLog) = Len(hub.repoPages)

\* C14 amended: the repository listing is fetched one page at a time and the
\* repositories of a page are synchronised before the next page is
\* requested: a repository handed to sync is of a page already fetched, all
\* repositories of the earlier pages have been handed to sync before it, and
\* when a page is requested no sync is in progress and every repository of
\* the pages before it has been synchronised.
C14_PageByPage ==
    /\ repoLog = UpTo(Len(repoLog))
    /\ synced # <<>> =>
         /\ repoLog # <<>>
         /\ IsPrefix(ListedUpTo(Len(repoLog) - 1), synced)
         /\ IsPrefix(synced, ListedUpTo(Len(repoLog)))
    /\ mainPc = "list" =>
         /\ synced = ListedUpTo(url[1] - 1)
         /\ repoLog = UpTo(url[1] - 1)
         /\ copying = <<>> /\ Len(rcs) = Len(copies)

\* C14 witness: a copy of a repository of the first page is in flight while
\* the second page of the listing has not been requested.
C14_Witness ==
    /\ mainPc = "copy" /\ copying # <<>>
    /\ repoLog = <<1>> /\ Len(hub.repoPages) = 2 /\ hub.repoPages[2] # <<>>

\* the position in synced of the repository a copy was invoked for
SyncedAt(c) == CHOOSE i \in 1..Len(synced) : synced[i] = c[2]
\* the copies invoked in the current run
RunCopies == SelectSeq(copies, LAMBDA c : c[1] = run)

\* C15: the repositories are handed to sync in the order of the listing,
\* each once; the coroutines in progress and the copy in flight belong to
\* the repository handed over last; a repository is handed over only when
\* the sync before it has returned, all its copies ended.
C15_OneRepositoryAtATime ==
    /\ [](IsPrefix(synced, Flatten(hub.repoPages)))
    /\ [](\A r \in Repos : Count(synced, r) <= 1)
    /\ [](repo # <<>> => (synced # <<>> /\ repo[1] = synced[Len(synced)]))
    /\ [](\A i \in 1..Len(RunCopies) :
            /\ \E k \in 1..Len(synced) : synced[k] = RunCopies[i][2]
            /\ \A j \in 1..i : SyncedAt(RunCopies[j]) <= SyncedAt(RunCopies[i]))
    /\ [][copies' # copies =>
            copies'[Len(copies')] = <<run, synced[Len(synced)], copying'[1]>>]_vars
    /\ [][(synced' # synced /\ run' = run) =>
            /\ synced' = Append(synced, repo'[1])
            /\ mainPc \in {"iter", "ret"}
            /\ copying = <<>> /\ Len(rcs) = Len(copies)
            /\ (synced # <<>> => AllDone)
            /\ ens' = EnsureStart /\ dk' = DockerStart /\ qy' = QuayStart]_vars

\* C15 witness: the reads of the second repository of the listing are in
\* progress, after a copy of the first one has ended.
C15_Witness ==
    /\ mainPc = "gather" /\ Len(synced) = 2 /\ ens.pc = "info"
    /\ \E i \in 1..Len(RunCopies) : RunCopies[i][2] = synced[1]
    /\ Len(rcs) = Len(copies)

\* C16: at most one copy is in flight; from a state in which one is, the
\* only step is the end of that copy: no request of a coroutine or of
\* main() is answered, no sleep is started or ended, no copy is invoked.
C16_CopyBlocksEverything ==
    /\ [](Len(copies) - Len(rcs) = (IF copying = <<>> THEN 0 ELSE 1))
    /\ [](copying # <<>> => (AllDone /\ \A h \in Holders : Awake(h)))
    /\ [][copying # <<>> =>
            /\ copying' = <<>> /\ rcs' # rcs
            /\ UNCHANGED <<copies, repoLog, synced, ens, dk, qy, sleep, n429, now,
                           url, nextUrl, results, repo, run>>]_vars

\* C16 witness: a copy is in flight and another stale tag is waiting.
C16_Witness ==
    /\ mainPc = "copy" /\ copying # <<>>
    /\ SkipInSync(todo, qy.tags) # <<>>

\* the fetch of ensure_quay_repo was answered with an error other than 404
FetchFailedOther ==
    /\ ens.pc # "idle" /\ ens.fetched # <<>>
    /\ Raises(ens.fetched[1]) /\ ens.fetched[1] # 404

\* C17: when the fetch is answered with an error status other than 404, the
\* call raises, it has issued and issues neither a POST nor a PUT, the sync
\* does not reach its copies, and the destination stays as it was.
C17_OtherFetchFailureIsFatal ==
    /\ [](FetchFailedOther =>
            /\ ens.pc = "failed" /\ ens.posts = <<>> /\ ens.puts = <<>>
            /\ mainPc \in {"gather", "failed"}
            /\ CopiedIn(run, repo[1]) = <<>>)
    /\ [][FetchFailedOther' => quay' = quay]_vars

\* C17 witness: the fetch of an existing repository was answered 500 and the
\* run has failed.
C17_Witness ==
    /\ FetchFailedOther /\ ens.fetched[1] = 500 /\ mainPc = "failed"
    /\ quay[repo[1]].exists

\* the number of pages Quay cuts the tags of repository r into
QuayPages(r) ==
    LET n == Cardinality(DOMAIN quay[r].tags)
    IN IF n = 0 THEN 1 ELSE (n + QuayLimit - 1) \div QuayLimit

\* C18: while the sync reads, the destination listing has requested pages
\* 1, 2, ... in order; every page before the last requested one had
\* has_additional true; it ends on the first page with has_additional false
\* and returns the tags of all pages.
C18_DestinationPagination ==
    (mainPc = "gather" /\ qy.pc \in {"get", "done"}) =>
        /\ qy.log = UpTo(Len(qy.log))
        /\ \A p \in 1..(Len(qy.log) - 1) : QuayTagPage(repo[1], p).has_additional
        /\ qy.pc = "get" =>
             /\ qy.page = <<Len(qy.log) + 1>>
             /\ \A p \in 1..Len(qy.log) : QuayTagPage(repo[1], p).has_additional
        /\ qy.pc = "done" =>
             /\ Len(qy.log) = QuayPages(repo[1])
             /\ ~QuayTagPage(repo[1], Len(qy.log)).has_additional
             /\ MapOf(qy.tags) = quay[repo[1]].tags

\* C18 witness: a listing of two pages has returned both tags.
C18_Witness ==
    /\ mainPc = "gather" /\ qy.pc = "done"
    /\ qy.log = <<1, 2>> /\ DictKeys(qy.tags) = {"a", "b"}

\* C19 as claimed: the retry has no cap; however many 429 answers the
\* server gives, the call is issuing, waiting or has returned, and never
\* ends in an error.  It fails: every 429 nests the call one level deeper
\* and the call raises RecursionError at the interpreter's limit.
C19_RetryNeverFails ==
    cl.st # "off" => cl.st \in {"call", "sleeping", "returned"}

\* C20 as claimed: for a repository absent from the destination, the tag
\* listing is answered only once ensure_quay_repo has created it: the sync
\* does not abort on a 404 of the listing and the creation is not
\* cancelled.  It fails: the three coroutines start together and the
\* listing can be answered first.
C20_ListingAfterCreation ==
    /\ ~(qy.pc = "failed" /\ qy.status = 404)
    /\ ~(ens.pc = "cancelled" /\ ens.posts = <<>>
          /\ ~quay[repo[1]].exists)

====
